---- MODULE Spec2Model ----
(***************************************************************************)
(* Model of learn/training.py: the train/validate/test loop of             *)
(* train_epochs, the early-stopping test early_stop, and the derivation of *)
(* coarse predictions from fine predictions in test().                     *)
(***************************************************************************)
EXTENDS Integers, Sequences, FiniteSets, TLC

(* ------------------------------ bounds -------------------------------- *)
\* largest n_epochs argument explored
MaxEpochs == 3
\* largest patience argument explored
MaxPatience == 2
\* longest criterion history handed to early_stop on its own
MaxHist == 4
\* largest number of instances in one batch of test()
MaxBatch == 2

(* --------------------------- float values ----------------------------- *)
\* A float is a record: kind "nan", "num" (finite, v is the value),
\* "-inf" or "+inf".
NaN == [kind |-> "nan", v |-> 0]
NegInf == [kind |-> "-inf", v |-> 0]
PosInf == [kind |-> "+inf", v |-> 0]
Num(n) == [kind |-> "num", v |-> n]

\* values a metric (f1_micro, ...) may take in one epoch
Vals == {NaN, Num(0), Num(1)}
\* values np.mean(losses) may take in test()
LossVals == {NaN, Num(1)}
\* values np.mean(losses) may take after train()
TrainLossVals == {Num(1)}

\* a < b on floats; every comparison with NaN is false
FloatLt(a, b) ==
    /\ a.kind # "nan"
    /\ b.kind # "nan"
    /\ \/ a.kind = "-inf" /\ b.kind # "-inf"
       \/ a.kind # "+inf" /\ b.kind = "+inf"
       \/ a.kind = "num" /\ b.kind = "num" /\ a.v < b.v

(* --------------------------- numpy helpers ---------------------------- *)
isnan(x) == x.kind = "nan"

\* np.all(np.isnan(a)); true of the empty array
all_isnan(a) == \A i \in DOMAIN a : isnan(a[i])

\* numpy's _replace_nan(a, val)
replace_nan(a, val) == [i \in DOMAIN a |-> IF isnan(a[i]) THEN val ELSE a[i]]

\* np.argmax / np.argmin of a non-empty array: the FIRST index (0-based)
\* holding the extreme value; a NaN in the array counts as extreme, so the
\* index of the first NaN is returned when there is one
first_nan(a) == CHOOSE i \in DOMAIN a : isnan(a[i]) /\ \A j \in DOMAIN a : j < i => ~isnan(a[j])
argmax(a) ==
    IF \E i \in DOMAIN a : isnan(a[i]) THEN first_nan(a) - 1
    ELSE (CHOOSE i \in DOMAIN a :
            /\ \A j \in DOMAIN a : ~FloatLt(a[i], a[j])
            /\ \A j \in DOMAIN a : j < i => FloatLt(a[j], a[i])) - 1
argmin(a) ==
    IF \E i \in DOMAIN a : isnan(a[i]) THEN first_nan(a) - 1
    ELSE (CHOOSE i \in DOMAIN a :
            /\ \A j \in DOMAIN a : ~FloatLt(a[j], a[i])
            /\ \A j \in DOMAIN a : j < i => FloatLt(a[i], a[j])) - 1

\* np.nanargmax with the NaN entries left in place (np.argmax)
nanargmax_KeepNan(a) == argmax(a)
nanargmax(a) == argmax(replace_nan(a, NegInf))
nanargmin(a) == argmin(replace_nan(a, PosInf))

(* ------------------------ defaultdict(lambda: []) ---------------------- *)
\* d[k] on a defaultdict: the stored list, or [] for a key never stored
Get(d, k) == IF k \in DOMAIN d THEN d[k] ELSE <<>>
\* the dictionary after d[k] was read: a missing key is inserted with []
Touch(d, k) == IF k \in DOMAIN d THEN d ELSE d @@ (k :> <<>>)

(* ----------------------------- early_stop ------------------------------ *)
\* index of the best epoch as early_stop locates it (lines 154, 156)
best_epoch(metrics_hist, criterion) ==
    IF criterion = "loss-dev"
    THEN nanargmin(Get(metrics_hist, criterion))
    ELSE nanargmax(Get(metrics_hist, criterion))

\* early_stop with <= in place of < on line 156
early_stop_LessEq(metrics_hist, criterion, patience) ==
    IF ~all_isnan(Get(metrics_hist, criterion))
    THEN IF criterion = "loss-dev"
         THEN nanargmin(Get(metrics_hist, criterion))
                  > Len(Get(metrics_hist, criterion)) - patience
         ELSE nanargmax(Get(metrics_hist, criterion))
                  <= Len(Get(metrics_hist, criterion)) - patience
    ELSE FALSE

early_stop(metrics_hist, criterion, patience) ==
    IF ~all_isnan(Get(metrics_hist, criterion))
    THEN IF criterion = "loss-dev"
         THEN nanargmin(Get(metrics_hist, criterion))
                  > Len(Get(metrics_hist, criterion)) - patience
         ELSE nanargmax(Get(metrics_hist, criterion))
                  < Len(Get(metrics_hist, criterion)) - patience
    ELSE FALSE

(* ------------------------------- state --------------------------------- *)
VARIABLES
    args,               \* the parsed command line (n_epochs, test_model, model, criterion, patience)
    optimizer,          \* what init() returned as optimizer: "Adam", "None"; "unset" before init
    pc,                 \* position of the run inside main / train_epochs
    it,                 \* next value the iterator of range(...) will yield
    epoch,              \* the local variable epoch of train_epochs
    metrics_train,      \* local dict of the current epoch
    metrics_dev,        \* local dict of the current epoch
    metrics_test,       \* local dict of the final evaluation
    metrics_hist_train, \* defaultdict
    metrics_hist_dev,   \* defaultdict
    metrics_hist_test,  \* defaultdict
    mkdirs,             \* number of model directories created by os.mkdir
    log,                \* the calls made so far, in order
    saves,              \* the arguments of every persistence.save_everything call
    stop,               \* whether early_stop returned True (the break was taken)
    ret,                \* first component of the value returned to main
    es_metrics_hist,    \* early_stop called on its own: its argument metrics_hist
    es_criterion,       \*   its argument criterion
    es_patience,        \*   its argument patience
    es_called,          \*   whether the call has been made
    es_ret,             \*   the value it returned
    es_best,            \*   the index it located as best epoch (-1: none located)
    dicts,              \* test() on one batch: the lookups ind2c, ind2c_coarse, c2ind_coarse
    output,             \*   the model's fine scores, one row per instance, in tenths
    output_coarse,      \*   the coarse predictions being built
    ci,                 \*   number of rows the loop of line 264 has handled
    cpc                 \*   position inside the non-hierarchical branch

vars == <<args, optimizer, pc, it, epoch, metrics_train, metrics_dev, metrics_test,
          metrics_hist_train, metrics_hist_dev, metrics_hist_test, mkdirs, log,
          saves, stop, ret, es_metrics_hist, es_criterion, es_patience,
          es_called, es_ret, es_best, dicts, output, output_coarse, ci, cpc>>

run_vars == <<args, optimizer, pc, it, epoch, metrics_train, metrics_dev, metrics_test,
              metrics_hist_train, metrics_hist_dev, metrics_hist_test, mkdirs, log,
              saves, stop, ret>>
es_vars == <<es_metrics_hist, es_criterion, es_patience, es_called, es_ret, es_best>>
coarse_vars == <<dicts, output, output_coarse, ci, cpc>>

\* Python's None, where an argument may be None or a string
None == "None"
\* the empty dictionary
EmptyDict == <<>>

\* keys of the dictionary test() returns: those of evaluation.all_metrics
\* (f1_micro stands for them) and 'loss' (line 319)
MetricKeys == {"f1_micro", "loss"}
\* a dictionary test() may return
Metrics == {[k \in MetricKeys |-> IF k = "loss" THEN l ELSE f] : f \in Vals, l \in LossVals}

Criteria == {None, "f1_micro", "loss-dev"}
TestModels == {None, "", "model.pth"}
Models == {"conv_attn", "dummy"}

\* truth value of a str-or-None in a Python condition
Truthy(s) == s # None /\ s # ""

\* line 80
test_only == args.test_model # None

\* the argument of range(...) on line 99
n_iterations == IF ~test_only THEN args.n_epochs ELSE 0

(* ------------------------- main, init, train_epochs -------------------- *)
RunIdle ==
    /\ args = [n_epochs |-> 0, test_model |-> None, model |-> "conv_attn",
               criterion |-> None, patience |-> 0]
    /\ optimizer = "unset"
    /\ pc = "idle"
    /\ it = 0
    /\ epoch = 0
    /\ metrics_train = EmptyDict
    /\ metrics_dev = EmptyDict
    /\ metrics_test = EmptyDict
    /\ metrics_hist_train = EmptyDict
    /\ metrics_hist_dev = EmptyDict
    /\ metrics_hist_test = EmptyDict
    /\ mkdirs = 0
    /\ log = <<>>
    /\ saves = <<>>
    /\ stop = FALSE
    /\ ret = -1

EsIdle ==
    /\ es_metrics_hist = EmptyDict
    /\ es_criterion = "f1_micro"
    /\ es_patience = 0
    /\ es_called = FALSE
    /\ es_ret = FALSE
    /\ es_best = -1

\* codes are strings, kept as sequences of characters
Code428_0 == <<"4", "2", "8", ".", "0">>
Code428_1 == <<"4", "2", "8", ".", "1">>
CodeV10 == <<"V", "1", "0">>
Code250_00 == <<"2", "5", "0", ".", "0", "0">>
Code25_0 == <<"2", "5", ".", "0">>
CodeE880_9 == <<"E", "8", "8", "0", ".", "9">>
Code428 == <<"4", "2", "8">>
Code250 == <<"2", "5", "0">>
Code25 == <<"2", "5">>
CodeE880 == <<"E", "8", "8", "0">>

\* c2ind_coarse of an ind2c_coarse: the inverse lookup (0-based indices)
InverseOf(ind2c_coarse) ==
    [c \in {ind2c_coarse[j] : j \in DOMAIN ind2c_coarse} |->
        (CHOOSE j \in DOMAIN ind2c_coarse : ind2c_coarse[j] = c) - 1]

\* lookups datasets.load_lookups may return; ind2c[j+1] is Python's ind2c[j]
Lookups ==
    { [ind2c |-> <<Code428_0, Code428_1, CodeV10>>,
       ind2c_coarse |-> <<Code250, Code428, CodeV10>>,
       c2ind_coarse |-> InverseOf(<<Code250, Code428, CodeV10>>)],
      [ind2c |-> <<Code250_00, Code25_0, CodeE880_9>>,
       ind2c_coarse |-> <<Code25, Code250, CodeE880>>,
       c2ind_coarse |-> InverseOf(<<Code25, Code250, CodeE880>>)] }

CoarseIdle ==
    /\ dicts = [ind2c |-> <<>>, ind2c_coarse |-> <<>>, c2ind_coarse |-> <<>>]
    /\ output = <<>>
    /\ output_coarse = <<>>
    /\ ci = 0
    /\ cpc = "idle"

\* main is entered with some parsed command line
Init ==
    /\ args \in [n_epochs : 0..MaxEpochs, test_model : TestModels, model : Models,
                 criterion : Criteria, patience : 0..MaxPatience]
    /\ optimizer = "unset"
    /\ pc = "init"
    /\ it = 0
    /\ epoch = 0
    /\ metrics_train = EmptyDict
    /\ metrics_dev = EmptyDict
    /\ metrics_test = EmptyDict
    /\ metrics_hist_train = EmptyDict
    /\ metrics_hist_dev = EmptyDict
    /\ metrics_hist_test = EmptyDict
    /\ mkdirs = 0
    /\ log = <<>>
    /\ saves = <<>>
    /\ stop = FALSE
    /\ ret = -1
    /\ EsIdle
    /\ CoarseIdle

\* init(args), lines 46-70
InitCall ==
    /\ pc = "init"
    /\ optimizer' = IF ~Truthy(args.test_model) /\ ~(args.model = "dummy")
                    THEN "Adam" ELSE "None"
    /\ pc' = "setup"
    /\ UNCHANGED <<args, it, epoch, metrics_train, metrics_dev, metrics_test,
                   metrics_hist_train, metrics_hist_dev, metrics_hist_test, mkdirs,
                   log, saves, stop, ret>>
    /\ UNCHANGED es_vars
    /\ UNCHANGED coarse_vars

\* train_epochs up to the loop, lines 76-96
Setup ==
    /\ pc = "setup"
    /\ metrics_hist_train' = EmptyDict
    /\ metrics_hist_dev' = EmptyDict
    /\ metrics_hist_test' = EmptyDict
    /\ epoch' = 0
    /\ mkdirs' = IF ~test_only THEN mkdirs + 1 ELSE mkdirs
    /\ log' = IF ~test_only THEN Append(log, "mkdir") ELSE log
    /\ it' = 0
    /\ pc' = "loop"
    /\ UNCHANGED <<args, optimizer, metrics_train, metrics_dev, metrics_test,
                   saves, stop, ret>>
    /\ UNCHANGED es_vars
    /\ UNCHANGED coarse_vars

\* for epoch in range(args.n_epochs if not test_only else 0), line 99
LoopHead ==
    /\ pc = "loop"
    /\ IF it < n_iterations
       THEN /\ epoch' = it
            /\ it' = it + 1
            /\ pc' = "train"
       ELSE /\ pc' = "test"
            /\ UNCHANGED <<epoch, it>>
    /\ UNCHANGED <<args, optimizer, metrics_train, metrics_dev, metrics_test,
                   metrics_hist_train, metrics_hist_dev, metrics_hist_test, mkdirs,
                   log, saves, stop, ret>>
    /\ UNCHANGED es_vars
    /\ UNCHANGED coarse_vars

\* train(...) and lines 101-105. The training set holds at least one batch,
\* and train() calls optimizer.zero_grad() on its first batch (line 197),
\* which raises AttributeError when optimizer is None
Train ==
    /\ pc = "train"
    /\ IF optimizer = "None"
       THEN /\ pc' = "raised"
            /\ UNCHANGED <<metrics_train, log>>
       ELSE /\ \E loss \in TrainLossVals : metrics_train' = [k \in {"loss"} |-> loss]
            /\ log' = Append(log, "train")
            /\ pc' = "dev"
    /\ UNCHANGED <<args, optimizer, it, epoch, metrics_dev, metrics_test,
                   metrics_hist_train, metrics_hist_dev, metrics_hist_test, mkdirs,
                   saves, stop, ret>>
    /\ UNCHANGED es_vars
    /\ UNCHANGED coarse_vars

\* evaluate on dev, lines 107-111; the fold name of line 107 only labels the
\* output of test(), the data evaluated is dataset_dev either way
EvalDev ==
    /\ pc = "dev"
    /\ \E m \in Metrics : metrics_dev' = m
    /\ log' = Append(log, "dev")
    /\ pc' = "append"
    /\ UNCHANGED <<args, optimizer, it, epoch, metrics_train, metrics_test,
                   metrics_hist_train, metrics_hist_dev, metrics_hist_test, mkdirs,
                   saves, stop, ret>>
    /\ UNCHANGED es_vars
    /\ UNCHANGED coarse_vars

\* the histories after the two loops of lines 113-119; hist_dev_NotAppended
\* is the dev history with line 119 left out
hist_train_appended ==
    [k \in {"loss", "epochs"} |->
        IF k = "loss" THEN Append(Get(metrics_hist_train, "loss"), metrics_train["loss"])
        ELSE epoch + 1]
hist_dev_NotAppended == metrics_hist_dev
hist_dev_appended ==
    [k \in DOMAIN metrics_hist_dev \cup DOMAIN metrics_dev |->
        IF k \in DOMAIN metrics_dev
        THEN Append(Get(metrics_hist_dev, k), metrics_dev[k])
        ELSE metrics_hist_dev[k]]

\* lines 113-121
AppendHist ==
    /\ pc = "append"
    /\ metrics_hist_train' = hist_train_appended
    /\ metrics_hist_dev' = hist_dev_appended
    /\ log' = Append(log, "append")
    /\ pc' = "save"
    /\ UNCHANGED <<args, optimizer, it, epoch, metrics_train, metrics_dev, metrics_test,
                   metrics_hist_test, mkdirs, saves, stop, ret>>
    /\ UNCHANGED es_vars
    /\ UNCHANGED coarse_vars

\* persistence.save_everything(..., evaluate=False, test_only=False), line 124
SaveEpoch ==
    /\ pc = "save"
    /\ saves' = Append(saves, [evaluate |-> FALSE, test_only |-> FALSE,
                               epochs |-> Len(Get(metrics_hist_train, "loss"))])
    /\ log' = Append(log, "save")
    /\ pc' = "check"
    /\ UNCHANGED <<args, optimizer, it, epoch, metrics_train, metrics_dev, metrics_test,
                   metrics_hist_train, metrics_hist_dev, metrics_hist_test, mkdirs,
                   stop, ret>>
    /\ UNCHANGED es_vars
    /\ UNCHANGED coarse_vars

\* lines 126-130 with `return` written where the code has `break`
EarlyStopCheck_ReturnAtStop ==
    /\ pc = "check"
    /\ IF args.criterion # None
       THEN /\ metrics_hist_dev' = Touch(metrics_hist_dev, args.criterion)
            /\ log' = Append(log, "check")
            /\ IF early_stop(metrics_hist_dev, args.criterion, args.patience)
               THEN /\ stop' = TRUE
                    /\ pc' = "return"
               ELSE /\ pc' = "loop"
                    /\ UNCHANGED stop
       ELSE /\ pc' = "loop"
            /\ UNCHANGED <<metrics_hist_dev, log, stop>>
    /\ UNCHANGED <<args, optimizer, it, epoch, metrics_train, metrics_dev, metrics_test,
                   metrics_hist_train, metrics_hist_test, mkdirs, saves, ret>>
    /\ UNCHANGED es_vars
    /\ UNCHANGED coarse_vars

\* lines 126-130
EarlyStopCheck ==
    /\ pc = "check"
    /\ IF args.criterion # None
       THEN /\ metrics_hist_dev' = Touch(metrics_hist_dev, args.criterion)
            /\ log' = Append(log, "check")
            /\ IF early_stop(metrics_hist_dev, args.criterion, args.patience)
               THEN /\ stop' = TRUE
                    /\ pc' = "test"
               ELSE /\ pc' = "loop"
                    /\ UNCHANGED stop
       ELSE /\ pc' = "loop"
            /\ UNCHANGED <<metrics_hist_dev, log, stop>>
    /\ UNCHANGED <<args, optimizer, it, epoch, metrics_train, metrics_dev, metrics_test,
                   metrics_hist_train, metrics_hist_test, mkdirs, saves, ret>>
    /\ UNCHANGED es_vars
    /\ UNCHANGED coarse_vars

\* evaluate on test, lines 132-135
EvalTest ==
    /\ pc = "test"
    /\ \E m \in Metrics : metrics_test' = m
    /\ log' = Append(log, "test")
    /\ pc' = "append_test"
    /\ UNCHANGED <<args, optimizer, it, epoch, metrics_train, metrics_dev,
                   metrics_hist_train, metrics_hist_dev, metrics_hist_test, mkdirs,
                   saves, stop, ret>>
    /\ UNCHANGED es_vars
    /\ UNCHANGED coarse_vars

\* lines 137-144
AppendTest ==
    /\ pc = "append_test"
    /\ metrics_hist_test' =
          [k \in DOMAIN metrics_hist_test \cup DOMAIN metrics_test |->
              IF k \in DOMAIN metrics_test
              THEN Append(Get(metrics_hist_test, k), metrics_test[k])
              ELSE metrics_hist_test[k]]
    /\ log' = Append(log, "append_test")
    /\ pc' = "save_final"
    /\ UNCHANGED <<args, optimizer, it, epoch, metrics_train, metrics_dev, metrics_test,
                   metrics_hist_train, metrics_hist_dev, mkdirs, saves, stop, ret>>
    /\ UNCHANGED es_vars
    /\ UNCHANGED coarse_vars

\* persistence.save_everything(..., evaluate=True, test_only=test_only), line 147
SaveFinal ==
    /\ pc = "save_final"
    /\ saves' = Append(saves, [evaluate |-> TRUE, test_only |-> test_only,
                               epochs |-> Len(Get(metrics_hist_train, "loss"))])
    /\ log' = Append(log, "save_final")
    /\ pc' = "return"
    /\ UNCHANGED <<args, optimizer, it, epoch, metrics_train, metrics_dev, metrics_test,
                   metrics_hist_train, metrics_hist_dev, metrics_hist_test, mkdirs,
                   stop, ret>>
    /\ UNCHANGED es_vars
    /\ UNCHANGED coarse_vars

\* return epoch+1, metrics_hist_test, line 149
Return ==
    /\ pc = "return"
    /\ ret' = epoch + 1
    /\ pc' = "done"
    /\ UNCHANGED <<args, optimizer, it, epoch, metrics_train, metrics_dev, metrics_test,
                   metrics_hist_train, metrics_hist_dev, metrics_hist_test, mkdirs,
                   log, saves, stop>>
    /\ UNCHANGED es_vars
    /\ UNCHANGED coarse_vars

Next ==
    \/ InitCall
    \/ Setup
    \/ LoopHead
    \/ Train
    \/ EvalDev
    \/ AppendHist
    \/ SaveEpoch
    \/ EarlyStopCheck
    \/ EvalTest
    \/ AppendTest
    \/ SaveFinal
    \/ Return

\* the interpreter runs one thread, which always takes its next step
Spec == Init /\ [][Next]_vars /\ WF_vars(Next)

(* ----------------------- early_stop called on its own ------------------ *)
\* criteria early_stop distinguishes: 'loss-dev' and any other
EsCriteria == {"f1_micro", "loss-dev"}

\* all lists of at most n values
ListsUpTo(n) == UNION {[1..k -> Vals] : k \in 0..n}

\* some history dictionary, criterion and patience
InitEarlyStop ==
    /\ RunIdle
    /\ CoarseIdle
    /\ es_criterion \in EsCriteria
    /\ es_patience \in 0..MaxPatience
    /\ es_metrics_hist \in
          {EmptyDict} \cup {[k \in {es_criterion} |-> h] : h \in ListsUpTo(MaxHist)}
    /\ es_called = FALSE
    /\ es_ret = FALSE
    /\ es_best = -1

\* early_stop(metrics_hist, criterion, patience), lines 151-159
EarlyStopCall ==
    /\ ~es_called
    /\ pc = "idle"
    /\ es_called' = TRUE
    /\ es_ret' = early_stop(es_metrics_hist, es_criterion, es_patience)
    /\ es_best' = IF ~all_isnan(Get(es_metrics_hist, es_criterion))
                  THEN best_epoch(es_metrics_hist, es_criterion)
                  ELSE -1
    /\ es_metrics_hist' = Touch(es_metrics_hist, es_criterion)
    /\ UNCHANGED <<es_criterion, es_patience>>
    /\ UNCHANGED run_vars
    /\ UNCHANGED coarse_vars

NextEarlyStop == EarlyStopCall

SpecEarlyStop == InitEarlyStop /\ [][NextEarlyStop]_vars

(* ------------- test(): coarse predictions of a non-hierarchical model --- *)
\* scores the model may give, in tenths: 0.0, 0.5, 0.6
Scores == {0, 5, 6}

\* np.round of a score given in tenths: to the nearest integer, a half to
\* the even neighbour; np_round_HalfUp rounds a half up instead
np_round_HalfUp(t) == IF t % 10 < 5 THEN t \div 10 ELSE t \div 10 + 1
np_round(t) ==
    IF t % 10 < 5 THEN t \div 10
    ELSE IF t % 10 > 5 THEN t \div 10 + 1
    ELSE IF (t \div 10) % 2 = 0 THEN t \div 10 ELSE t \div 10 + 1

\* np.nonzero(np.round(row))[0]: the 0-based indices of the nonzero entries
nonzero_round(row) == {j - 1 : j \in {k \in DOMAIN row : np_round(row[k]) # 0}}

\* len(np.nonzero(...)): np.nonzero returns a tuple with one array per
\* dimension, so for a row this is the length of a 1-tuple
len_nonzero(row) == Len(<<nonzero_round(row)>>)

\* str(code).split('.')[0]
split_dot_0(code) ==
    LET dots == {i \in DOMAIN code : code[i] = "."}
    IN  IF dots = {} THEN code
        ELSE SubSeq(code, 1, (CHOOSE i \in dots : \A j \in dots : i <= j) - 1)

\* codes_coarse_idx of a row, lines 267-269
codes_coarse_idx(row) ==
    LET codes == {dicts.ind2c[ind + 1] : ind \in nonzero_round(row)}
        codes_coarse == {split_dot_0(code) : code \in codes}
    IN  {dicts.c2ind_coarse[code_coarse] : code_coarse \in codes_coarse}

\* a batch of scores and the lookups of the run
InitCoarse ==
    /\ RunIdle
    /\ EsIdle
    /\ dicts \in Lookups
    /\ \E n \in 1..MaxBatch : output \in [1..n -> [1..Len(dicts.ind2c) -> Scores]]
    /\ output_coarse = <<>>
    /\ ci = 0
    /\ cpc = "zeros"

\* output_coarse = np.zeros([len(output), len(dicts['ind2c_coarse'])]), line 263
CoarseZeros ==
    /\ cpc = "zeros"
    /\ output_coarse' = [i \in 1..Len(output) |-> [j \in 1..Len(dicts.ind2c_coarse) |-> 0]]
    /\ ci' = 0
    /\ cpc' = "rows"
    /\ UNCHANGED <<dicts, output>>
    /\ UNCHANGED run_vars
    /\ UNCHANGED es_vars

\* one iteration of the loop of lines 264-270, on row ci
CoarseRow ==
    /\ cpc = "rows"
    /\ ci < Len(output)
    /\ IF len_nonzero(output[ci + 1]) = 0
       THEN UNCHANGED output_coarse
       ELSE output_coarse' =
               [output_coarse EXCEPT ![ci + 1] =
                   [j \in DOMAIN @ |->
                       IF (j - 1) \in codes_coarse_idx(output[ci + 1]) THEN 1 ELSE @[j]]]
    /\ ci' = ci + 1
    /\ UNCHANGED <<dicts, output, cpc>>
    /\ UNCHANGED run_vars
    /\ UNCHANGED es_vars

\* the loop is exhausted; lines 272-275 keep output_coarse
CoarseDone ==
    /\ cpc = "rows"
    /\ ci = Len(output)
    /\ cpc' = "done"
    /\ UNCHANGED <<dicts, output, output_coarse, ci>>
    /\ UNCHANGED run_vars
    /\ UNCHANGED es_vars

NextCoarse ==
    \/ CoarseZeros
    \/ CoarseRow
    \/ CoarseDone

SpecCoarse == InitCoarse /\ [][NextCoarse]_vars

(* ======================= properties of early_stop ====================== *)
\* the history early_stop was called on
EsHist == Get(es_metrics_hist, es_criterion)
\* some recorded value is not NaN
HasValue(h) == \E i \in DOMAIN h : h[i].kind = "num"
\* epoch i (1-based) holds a largest / smallest recorded value
IsLargest(h, i) ==
    h[i].kind = "num" /\ \A j \in DOMAIN h : h[j].kind = "num" => h[j].v <= h[i].v
IsSmallest(h, i) ==
    h[i].kind = "num" /\ \A j \in DOMAIN h : h[j].kind = "num" => h[j].v >= h[i].v
\* the first epoch that achieved the maximum / minimum so far
FirstLargest(h) == CHOOSE i \in DOMAIN h : IsLargest(h, i) /\ \A j \in 1..(i - 1) : ~IsLargest(h, j)
FirstSmallest(h) == CHOOSE i \in DOMAIN h : IsSmallest(h, i) /\ \A j \in 1..(i - 1) : ~IsSmallest(h, j)
\* no value among the last p entries is strictly greater than the best of
\* the earlier entries
NoneOfLastGreater(h, p) ==
    \E e \in 1..(Len(h) - p) :
        /\ h[e].kind = "num"
        /\ \A j \in (Len(h) - p + 1)..Len(h) : h[j].kind = "num" => ~(h[j].v > h[e].v)

\* C1: for a criterion other than 'loss-dev' whose history holds a non-NaN
\* value, early_stop returns True exactly when the first epoch that achieved
\* the maximum lies at least `patience` epochs before the latest epoch, which
\* is when no value among the last `patience` entries is strictly greater
\* than the best of the earlier entries.
C1_EarlyStopMax ==
    (es_called /\ es_criterion # "loss-dev" /\ HasValue(EsHist)) =>
        /\ es_ret <=> (FirstLargest(EsHist) + es_patience <= Len(EsHist))
        /\ es_ret <=> NoneOfLastGreater(EsHist, es_patience)

\* C1 witness: the call returned True on a history in which the maximum is
\* reached early and again, not exceeded, within the last `patience` entries
C1_Witness ==
    /\ es_called
    /\ es_criterion = "f1_micro"
    /\ es_ret
    /\ es_patience = 2
    /\ Len(EsHist) = 4
    /\ EsHist[1] = NaN
    /\ EsHist[2] = Num(1)
    /\ EsHist[4] = Num(1)

\* C2: for criterion 'loss-dev' whose history holds a non-NaN value,
\* early_stop returns True exactly when the epoch holding the minimum loss
\* lies at least `patience` epochs before the latest epoch; it does not stop
\* while the most recent epoch is the best one so far.
C2_EarlyStopLoss ==
    (es_called /\ es_criterion = "loss-dev" /\ HasValue(EsHist)) =>
        /\ es_ret <=> (FirstSmallest(EsHist) + es_patience <= Len(EsHist))
        /\ (es_patience >= 1 /\ FirstSmallest(EsHist) = Len(EsHist)) => ~es_ret

\* C4: when every recorded value is NaN, or none was recorded, early_stop
\* returns False for any patience; otherwise the epoch it locates as best
\* holds a non-NaN value that is best among the non-NaN values.
C4_NanHandling ==
    es_called =>
        /\ ~HasValue(EsHist) => ~es_ret
        /\ HasValue(EsHist) =>
              /\ es_best + 1 \in DOMAIN EsHist
              /\ IF es_criterion = "loss-dev"
                 THEN IsSmallest(EsHist, es_best + 1)
                 ELSE IsLargest(EsHist, es_best + 1)

\* C4 witness: a history of several NaN values and patience 0, for which
\* the call returned False
C4_Witness ==
    /\ es_called
    /\ Len(EsHist) >= 2
    /\ \A i \in DOMAIN EsHist : EsHist[i] = NaN
    /\ es_patience = 0
    /\ ~es_ret

(* ====================== properties of train_epochs ===================== *)
\* number of times a call appears in the log
Count(op) == Cardinality({i \in DOMAIN log : log[i] = op})
\* the steps of a training epoch
EpochOps == {"train", "dev", "append", "save", "check"}
\* the run is past the training loop
PastLoop == pc \in {"test", "append_test", "save_final", "return", "done"}
\* the run of train_epochs has ended
Ended == pc \in {"done", "raised"}

\* C3: a training run executes exactly n_epochs epochs unless early_stop
\* returns True after some epoch, and then the loop ends right after that
\* epoch; it never executes more than n_epochs epochs; with criterion None
\* it never stops early and runs exactly n_epochs epochs; and the run never
\* gets stuck before its end. A run that train() ends by raising has ended
\* too, and is held to the same count.
C3_EpochBound ==
    /\ Count("train") <= args.n_epochs
    /\ args.criterion = None => ~stop
    /\ stop =>
          /\ ~test_only
          /\ early_stop(metrics_hist_dev, args.criterion, args.patience)
          /\ \E i \in DOMAIN log :
                /\ log[i] = "check"
                /\ \A j \in (i + 1)..Len(log) : log[j] \notin EpochOps
    /\ ((PastLoop \/ Ended) /\ ~test_only /\ ~stop) => Count("train") = args.n_epochs
    /\ (PastLoop /\ ~test_only /\ ~stop /\ args.criterion # None /\ args.n_epochs > 0) =>
          ~early_stop(metrics_hist_dev, args.criterion, args.patience)
    /\ Ended \/ ENABLED Next

\* C5: in every run that returns, the test-set evaluation happened exactly
\* once and after the last training epoch, every list of metrics_hist_test
\* holds one entry, and save_everything(evaluate=True) was called exactly
\* once, after that evaluation.
C5_TestOnce ==
    /\ Count("test") <= 1
    /\ \A i \in DOMAIN log : log[i] = "test" =>
          \A j \in (i + 1)..Len(log) : log[j] \notin EpochOps
    /\ Cardinality({i \in DOMAIN saves : saves[i].evaluate}) <= 1
    /\ \A i \in DOMAIN log : log[i] = "save_final" =>
          \E j \in 1..(i - 1) : log[j] = "test"
    /\ pc = "done" =>
          /\ Count("test") = 1
          /\ Count("save_final") = 1
          /\ DOMAIN metrics_hist_test = MetricKeys
          /\ \A k \in DOMAIN metrics_hist_test : Len(metrics_hist_test[k]) = 1
          /\ Cardinality({i \in DOMAIN saves : saves[i].evaluate}) = 1
          /\ saves[Len(saves)].evaluate

\* C5 witness: an early-stopped run returned
C5_Witness ==
    /\ pc = "done"
    /\ stop
    /\ Count("train") >= 1
    /\ Count("test") = 1

\* C6: in test-only mode no training epoch and no dev evaluation runs, no
\* optimizer is created, no model directory is created, the train and dev
\* histories stay empty, and the only work is one test evaluation followed
\* by one save_everything(evaluate=True, test_only=True).
C6_TestOnly ==
    test_only =>
        /\ Count("train") = 0
        /\ Count("dev") = 0
        /\ optimizer # "Adam"
        /\ mkdirs = 0
        /\ metrics_hist_train = EmptyDict
        /\ metrics_hist_dev = EmptyDict
        /\ pc = "done" =>
              /\ log = <<"test", "append_test", "save_final">>
              /\ saves = <<[evaluate |-> TRUE, test_only |-> TRUE, epochs |-> 0]>>

\* C7: the first value train_epochs returns equals the number of training
\* epochs executed.
C7_EpochsReturned == pc = "done" => ret = Count("train")

\* C8: within an epoch the steps happen in the order train, dev, append,
\* save, early-stop check; the check sees the current epoch's dev metrics;
\* and every completed epoch has been saved, the one at which early stopping
\* triggers included.
C8_EpochOrder ==
    /\ \A i \in DOMAIN log :
          /\ log[i] = "dev" => (i > 1 /\ log[i - 1] = "train")
          /\ log[i] = "append" => (i > 1 /\ log[i - 1] = "dev")
          /\ log[i] = "save" => (i > 1 /\ log[i - 1] = "append")
          /\ log[i] = "check" => (i > 1 /\ log[i - 1] = "save")
          /\ (log[i] \in {"train", "test"} /\ i > 1) =>
                log[i - 1] = (IF i = 2 THEN "mkdir"
                              ELSE IF args.criterion # None THEN "check" ELSE "save")
    /\ pc = "check" =>
          /\ \A k \in MetricKeys :
                /\ Len(Get(metrics_hist_dev, k)) = epoch + 1
                /\ metrics_hist_dev[k][epoch + 1] = metrics_dev[k]
          /\ Len(Get(metrics_hist_train, "loss")) = epoch + 1
          /\ Len(saves) = epoch + 1
          /\ saves[epoch + 1] = [evaluate |-> FALSE, test_only |-> FALSE, epochs |-> epoch + 1]
    /\ (pc \in {"loop", "check"} \/ PastLoop) => Count("save") = Count("train")
    /\ stop => (Count("save") = Count("train") /\ Count("check") = Count("train"))

\* C8 witness: early stopping has just triggered in the second epoch or later
C8_Witness ==
    /\ pc = "test"
    /\ stop
    /\ Count("train") >= 2
    /\ Count("save") = Count("train")

(* ================= properties of the coarse predictions ================ *)
\* a score whose nearest integer is 1 (a half is not nearer to 1 than to 0)
RoundsToOne(t) == t > 5 /\ t < 15
\* coarse code cc is the part of code before its first '.'
IsCoarseOf(code, cc) ==
    /\ Len(cc) <= Len(code)
    /\ \A k \in DOMAIN cc : cc[k] = code[k] /\ cc[k] # "."
    /\ Len(cc) < Len(code) => code[Len(cc) + 1] = "."
\* instance i is predicted a fine code whose coarse code is number j (1-based)
PredictsCoarse(i, j) ==
    \E f \in DOMAIN dicts.ind2c :
        /\ RoundsToOne(output[i][f])
        /\ IsCoarseOf(dicts.ind2c[f], dicts.ind2c_coarse[j])

\* C9: output_coarse[i, j] is 1 exactly when some fine code predicted for
\* instance i has coarse code j as the part of its name before the first
\* '.', and 0 otherwise; rows not handled yet are all zero, so a row depends
\* only on the scores of its own instance.
C9_CoarseFromFine ==
    cpc \in {"rows", "done"} =>
        /\ DOMAIN output_coarse = DOMAIN output
        /\ \A i \in DOMAIN output : \A j \in DOMAIN dicts.ind2c_coarse :
              output_coarse[i][j] =
                  (IF i <= ci /\ PredictsCoarse(i, j) THEN 1 ELSE 0)
        /\ cpc = "done" => ci = Len(output)

\* C9 witness: a finished batch of two instances, the first with no
\* predicted code, the second with two predicted codes of one coarse code
C9_Witness ==
    /\ cpc = "done"
    /\ Len(output) = 2
    /\ \A f \in DOMAIN output[1] : ~RoundsToOne(output[1][f])
    /\ \A j \in DOMAIN output_coarse[1] : output_coarse[1][j] = 0
    /\ \E f, g \in DOMAIN output[2] :
          /\ f # g
          /\ RoundsToOne(output[2][f])
          /\ RoundsToOne(output[2][g])
          /\ \E j \in DOMAIN dicts.ind2c_coarse :
                /\ IsCoarseOf(dicts.ind2c[f], dicts.ind2c_coarse[j])
                /\ IsCoarseOf(dicts.ind2c[g], dicts.ind2c_coarse[j])
                /\ output_coarse[2][j] = 1

====
